---- MODULE Spec2Model ----
(***************************************************************************)
(* kdbg: a kubectl wrapper.  One invocation of the binary is modelled from *)
(* clap's parse of the command line to the process exit status, with every *)
(* kubectl child process the invocation starts recorded in `calls`.        *)
(***************************************************************************)
EXTENDS Integers, Sequences, FiniteSets, TLC

VARIABLES
    command,      \* Commands variant chosen by Cli::parse()
    pod_pattern,  \* the `pod` positional argument
    namespace,    \* the -n/--namespace option (Option<String>)
    verbose,      \* list --verbose
    cluster,      \* what `kubectl get pods -o json` answers in this invocation
    now,          \* SystemTime::now() in seconds since the epoch
    pc,           \* position of the invocation
    calls,        \* kubectl child processes run so far, in order
    resolved,     \* Result<(String, String)> returned by find_pod
    listed,       \* candidate lines find_pod printed ("  - name (namespace: ns)")
    rows,         \* table rows list_pods printed
    shell_i,      \* loop index i of shell_pod
    exit_code     \* process exit status, None while running

vars == <<command, pod_pattern, namespace, verbose, cluster, now, pc, calls,
          resolved, listed, rows, shell_i, exit_code>>

----------------------------------------------------------------------------
(* Bounds of the model *)

\* longest `items` array a kubectl answer carries for the resolver commands
MaxPods == 2
\* longest `items` array a kubectl answer carries for `list`
MaxListPods == 2
\* SystemTime::now() of the invocation, in seconds since the epoch
Clock == 200000

----------------------------------------------------------------------------
(* Option<T>, and the std / serde_json helpers the code uses *)

None == <<>>
Some(v) == <<v>>

unwrap_or(o, d) == IF o = None THEN d ELSE o[1]

\* a faulty str::contains: the pattern is anchored at the start (starts_with)
contains_prefix_only(name, pat) ==
    /\ Len(pat) <= Len(name)
    /\ SubSeq(name, 1, Len(pat)) = pat

\* str::contains(&str): case-sensitive, unanchored substring test
contains(name, pat) ==
    /\ Len(pat) <= Len(name)
    /\ \E i \in 0..(Len(name) - Len(pat)) : SubSeq(name, i + 1, i + Len(pat)) = pat

SeqsUpTo(S, n) == UNION {[1..k -> S] : k \in 0..n}

----------------------------------------------------------------------------
(* The command line *)

Commands == {"List", "Logs", "Exec", "Describe", "Top", "Forward", "Shell",
             "Debug", "Restart", "Events"}

\* the commands whose handler starts with find_pod(pod_pattern, namespace)?
ResolverCommands == {"Logs", "Exec", "Describe", "Forward", "Shell", "Restart", "Events"}

PodNames == {"web-1", "web-10", "Web-2"}
Namespaces == {"prod", "dev"}
\* -n/--namespace: absent (all namespaces) or one namespace
Scopes == {None, Some("prod")}
Patterns == {"", "web", "web-1", "eb-10", "W", "unknown"}

----------------------------------------------------------------------------
(* kubectl's answer to `get pods -o json` *)

\* an RFC 3339 text: the local time it spells and its UTC offset, in seconds
Timestamp(local, offset) == [rfc3339 |-> TRUE, local |-> local, offset |-> offset]
Garbage == [rfc3339 |-> FALSE, local |-> 0, offset |-> 0]

\* one element of `items`; a field is None when it is missing or not of the
\* JSON type the code asks for (as_str / as_array / as_u64 return None)
Pod(name, ns, phase, cs, ts) ==
    [name |-> name, namespace |-> ns, phase |-> phase,
     containerStatuses |-> cs, creationTimestamp |-> ts]

\* std::process::Output of the listing call, or the failure to start it
Answer(spawned, success, json, items) ==
    [spawned |-> spawned, success |-> success, json |-> json, items |-> items]

CannotRun == Answer(FALSE, FALSE, FALSE, None)

Answers(pods, n) ==
    {CannotRun}
      \cup {Answer(TRUE, s, FALSE, None) : s \in BOOLEAN}
      \cup {Answer(TRUE, s, TRUE, None) : s \in BOOLEAN}
      \cup {Answer(TRUE, s, TRUE, Some(p)) : s \in BOOLEAN, p \in SeqsUpTo(pods, n)}

----------------------------------------------------------------------------
(* Child processes *)

\* how a kubectl child process ends: it cannot be started (io::Error from
\* output()/status()), or it exits with ExitStatus::success() true or false
Statuses == {"cannot_run", "success", "failure"}

Call(argv, stderr, status) == [argv |-> argv, stderr |-> stderr, status |-> status]

\* the status of the listing call, read off kubectl's answer
AnswerStatus(output) ==
    IF ~output.spawned THEN "cannot_run"
    ELSE IF output.success THEN "success" ELSE "failure"

\* "get pods [-n ns | --all-namespaces] -o json"
get_pods_args(ns) ==
    <<"get", "pods">>
      \o (IF ns # None THEN <<"-n", ns[1]>> ELSE <<"--all-namespaces">>)
      \o <<"-o", "json">>

\* "top pods [-n ns | --all-namespaces]"
top_pods_args(ns) ==
    <<"top", "pods">>
      \o (IF ns # None THEN <<"-n", ns[1]>> ELSE <<"--all-namespaces">>)

IsQuery(c) == c.argv[1] = "get" /\ c.argv[2] = "pods"

----------------------------------------------------------------------------
(* Result<(String, String)> and Result<()> *)

Ok(name, ns) == [ok |-> TRUE, name |-> name, ns |-> ns, err |-> ""]
Err(e) == [ok |-> FALSE, name |-> "", ns |-> "", err |-> e]

IoError == "io::Error"
JsonError == "serde_json::Error"
NoPodsFound(pattern) == "No pods found matching '" \o pattern \o "'"
BeMoreSpecific == "Please be more specific"

\* a faulty `?` after find_pod(..): the error is dropped
question_mark_ignored(r) == FALSE

\* `find_pod(..)?`: whether the handler returns early with the error
question_mark(r) == ~r.ok

\* main's `Result<()>` as the process exit status
ExitOf(ok) == IF ok THEN 0 ELSE 1

----------------------------------------------------------------------------
(* find_pod *)

\* a faulty filter: the pattern is anchored at the start of the name
matches_anchored(pods, pattern) ==
    SelectSeq(pods, LAMBDA pod : contains_prefix_only(unwrap_or(pod.name, ""), pattern))

\* pods.iter().filter(|pod| name.contains(pod_pattern)).collect()
matches(pods, pattern) ==
    SelectSeq(pods, LAMBDA pod : contains(unwrap_or(pod.name, ""), pattern))

\* the line printed for one candidate
candidate_line(pod) ==
    <<unwrap_or(pod.name, "unknown"), unwrap_or(pod.namespace, "default")>>

\* for pod in &matches { println!("  - {} (namespace: {})", ..) }
candidate_lines(ms) == [i \in 1..Len(ms) |-> candidate_line(ms[i])]

\* a faulty decision: a candidate named exactly as the pattern wins
decide_exact_first(ms, pattern) ==
    LET exact == SelectSeq(ms, LAMBDA pod : unwrap_or(pod.name, "") = pattern)
    IN  IF ms = <<>> THEN [result |-> Err(NoPodsFound(pattern)), printed |-> <<>>]
        ELSE IF Len(ms) > 1 /\ Len(exact) # 1
             THEN [result |-> Err(BeMoreSpecific), printed |-> candidate_lines(ms)]
        ELSE LET pod == IF Len(ms) > 1 THEN exact[1] ELSE ms[1]
             IN  [result |-> Ok(candidate_line(pod)[1], candidate_line(pod)[2]),
                  printed |-> <<>>]

\* the decision by the number of matches, and the returned pair
decide(ms, pattern) ==
    IF ms = <<>> THEN [result |-> Err(NoPodsFound(pattern)), printed |-> <<>>]
    ELSE IF Len(ms) > 1
         THEN [result |-> Err(BeMoreSpecific), printed |-> candidate_lines(ms)]
    ELSE [result |-> Ok(unwrap_or(ms[1].name, "unknown"),
                        unwrap_or(ms[1].namespace, "default")),
          printed |-> <<>>]

\* find_pod after Command::output(): output.status is not consulted
find_pod_result(pattern, output) ==
    IF ~output.spawned THEN [result |-> Err(IoError), printed |-> <<>>]
    ELSE IF ~output.json THEN [result |-> Err(JsonError), printed |-> <<>>]
    ELSE decide(matches(unwrap_or(output.items, <<>>), pattern), pattern)

----------------------------------------------------------------------------
(* calculate_age and the rows of list_pods *)

\* chrono::DateTime::parse_from_rfc3339(timestamp).map(|dt| dt.timestamp())
parse_from_rfc3339(ts) == IF ts.rfc3339 THEN Some(ts.local - ts.offset) ELSE None

\* faulty bucket tests: `<=` where the code has `<`
age_of_diff_inclusive(diff) ==
    IF diff <= 60 THEN ToString(diff) \o "s"
    ELSE IF diff <= 3600 THEN ToString(diff \div 60) \o "m"
    ELSE IF diff <= 86400 THEN ToString(diff \div 3600) \o "h"
    ELSE ToString(diff \div 86400) \o "d"

\* the if/else chain of calculate_age over diff = now - created.  i64 `/`
\* truncates; it is reached only with diff >= 60, where \div agrees with it
age_of_diff(diff) ==
    IF diff < 60 THEN ToString(diff) \o "s"
    ELSE IF diff < 3600 THEN ToString(diff \div 60) \o "m"
    ELSE IF diff < 86400 THEN ToString(diff \div 3600) \o "h"
    ELSE ToString(diff \div 86400) \o "d"

calculate_age(timestamp, clock) ==
    age_of_diff(clock - unwrap_or(parse_from_rfc3339(timestamp), 0))

\* match phase { "Running" => green, .. , _ => normal }
status_colored(phase) ==
    CASE phase = "Running" -> "green"
      [] phase = "Pending" -> "yellow"
      [] phase = "Failed" -> "red"
      [] phase = "Succeeded" -> "blue"
      [] OTHER -> "normal"

\* containerStatuses.as_array().and_then(first).and_then(restartCount.as_u64()).unwrap_or(0)
restarts_of(pod) ==
    LET cs == pod.containerStatuses
    IN  IF cs = None THEN 0
        ELSE IF cs[1] = <<>> THEN 0
        ELSE unwrap_or(cs[1][1].restartCount, 0)

\* creationTimestamp.as_str().map(|ts| calculate_age(ts)).unwrap_or("unknown")
age_of(pod, clock) ==
    IF pod.creationTimestamp = None THEN "unknown"
    ELSE calculate_age(pod.creationTimestamp[1], clock)

\* one printed row; restarts and age are printed only with --verbose
row_of(pod, v, clock) ==
    LET phase == unwrap_or(pod.phase, "Unknown")
    IN  [name |-> unwrap_or(pod.name, "unknown"),
         ns |-> unwrap_or(pod.namespace, "default"),
         phase |-> phase,
         colour |-> status_colored(phase),
         restarts |-> IF v THEN Some(restarts_of(pod)) ELSE None,
         age |-> IF v THEN Some(age_of(pod, clock)) ELSE None]

----------------------------------------------------------------------------
(* The handlers.  Each kubectl child process is one step: the handler blocks *)
(* in output()/status() until the child has ended.                          *)

\* a faulty listing call: a failed query is run again
query_calls_retry(ns, output) ==
    IF AnswerStatus(output) = "success"
    THEN <<Call(get_pods_args(ns), "piped", AnswerStatus(output))>>
    ELSE <<Call(get_pods_args(ns), "piped", AnswerStatus(output)),
           Call(get_pods_args(ns), "piped", AnswerStatus(output))>>

\* Command::new("kubectl").args(&args).output()? -- one child, output captured
query_calls(ns, output) == <<Call(get_pods_args(ns), "piped", AnswerStatus(output))>>

\* main's arm for List: list_pods(namespace, verbose)?
list_pods ==
    /\ pc = "main"
    /\ command = "List"
    /\ calls' = query_calls(namespace, cluster)
    /\ rows' = IF cluster.spawned /\ cluster.success /\ cluster.json
               THEN LET pods == unwrap_or(cluster.items, <<>>)
                    IN  [i \in 1..Len(pods) |-> row_of(pods[i], verbose, now)]
               ELSE <<>>
    /\ exit_code' = IF ~cluster.spawned THEN Some(ExitOf(FALSE))
                    ELSE IF ~cluster.success THEN Some(ExitOf(TRUE))
                    ELSE IF ~cluster.json THEN Some(ExitOf(FALSE))
                    ELSE Some(ExitOf(TRUE))
    /\ pc' = "done"
    /\ UNCHANGED <<command, pod_pattern, namespace, verbose, cluster, now,
                   resolved, listed, shell_i>>

\* the first statement of every resolver handler: find_pod(pod_pattern, namespace)?
find_pod ==
    /\ pc = "main"
    /\ command \in ResolverCommands
    /\ LET r == find_pod_result(pod_pattern, cluster)
       IN  /\ calls' = query_calls(namespace, cluster)
           /\ resolved' = r.result
           /\ listed' = r.printed
           /\ IF question_mark(r.result)
              THEN pc' = "done" /\ exit_code' = Some(ExitOf(FALSE))
              ELSE pc' = "resolved" /\ exit_code' = exit_code
    /\ UNCHANGED <<command, pod_pattern, namespace, verbose, cluster, now,
                   rows, shell_i>>

\* the rest of a handler that runs one child with status()? and bails on failure
RunOnce(cmd, argv) ==
    /\ pc = "resolved"
    /\ command = cmd
    /\ \E st \in Statuses :
         /\ calls' = Append(calls, Call(argv, "inherit", st))
         /\ exit_code' = Some(ExitOf(st = "success"))
    /\ pc' = "done"
    /\ UNCHANGED <<command, pod_pattern, namespace, verbose, cluster, now,
                   resolved, listed, rows, shell_i>>

show_logs ==
    \E follow \in BOOLEAN :
        RunOnce("Logs", <<"logs", resolved.name, "-n", resolved.ns, "--tail", ToString(100)>>
                          \o (IF follow THEN <<"-f">> ELSE <<>>))

exec_pod ==
    \E cmd \in {"/bin/sh", "env"} :
        RunOnce("Exec", <<"exec", "-it", resolved.name, "-n", resolved.ns, "--", cmd>>)

describe_pod == RunOnce("Describe", <<"describe", "pod", resolved.name, "-n", resolved.ns>>)

port_forward ==
    RunOnce("Forward", <<"port-forward", resolved.name,
                         ToString(8080) \o ":" \o ToString(80), "-n", resolved.ns>>)

restart_pod == RunOnce("Restart", <<"delete", "pod", resolved.name, "-n", resolved.ns>>)

show_events ==
    RunOnce("Events", <<"get", "events", "-n", resolved.ns, "--field-selector",
                        "involvedObject.name=" \o resolved.name,
                        "--sort-by", ".lastTimestamp">>)

\* let shells = ["/bin/bash", "/bin/sh"];
shells == <<"/bin/bash", "/bin/sh">>

shell_args(shell) == <<"exec", "-it", resolved.name, "-n", resolved.ns, "--", shell>>

\* the first child of one iteration of `for (i, shell) in shells.iter().enumerate()`:
\* stderr(Stdio::null())
shell_pod ==
    /\ pc = "resolved"
    /\ command = "Shell"
    /\ shell_i < Len(shells)
    /\ \E st \in Statuses :
         /\ calls' = Append(calls, Call(shell_args(shells[shell_i + 1]), "null", st))
         /\ IF st = "cannot_run"
            THEN pc' = "done" /\ exit_code' = Some(ExitOf(FALSE)) /\ shell_i' = shell_i
            ELSE IF st = "success"
            THEN pc' = "done" /\ exit_code' = Some(ExitOf(TRUE)) /\ shell_i' = shell_i
            ELSE IF shell_i = Len(shells) - 1
            THEN pc' = "last" /\ exit_code' = exit_code /\ shell_i' = shell_i
            ELSE pc' = "resolved" /\ exit_code' = exit_code /\ shell_i' = shell_i + 1
    /\ UNCHANGED <<command, pod_pattern, namespace, verbose, cluster, now,
                   resolved, listed, rows>>

\* `if i == shells.len() - 1 { .. }`: the same shell again, stderr(Stdio::inherit());
\* a failure ends the loop and the handler bails
shell_pod_last ==
    /\ pc = "last"
    /\ \E st \in Statuses :
         /\ calls' = Append(calls, Call(shell_args(shells[shell_i + 1]), "inherit", st))
         /\ exit_code' = Some(ExitOf(st = "success"))
    /\ pc' = "done"
    /\ UNCHANGED <<command, pod_pattern, namespace, verbose, cluster, now,
                   resolved, listed, rows, shell_i>>

\* main's arm for Top: a failed `kubectl top` is a warning, the handler returns Ok(())
show_top ==
    /\ pc = "main"
    /\ command = "Top"
    /\ \E st \in Statuses :
         /\ calls' = <<Call(top_pods_args(namespace), "inherit", st)>>
         /\ exit_code' = Some(ExitOf(st # "cannot_run"))
    /\ pc' = "done"
    /\ UNCHANGED <<command, pod_pattern, namespace, verbose, cluster, now,
                   resolved, listed, rows, shell_i>>

\* main's arm for Debug: `kubectl run debug-<now> --image .. --rm -it -- /bin/sh`
debug_pod ==
    /\ pc = "main"
    /\ command = "Debug"
    /\ \E st \in Statuses :
         /\ calls' = <<Call(<<"run", "debug-" \o ToString(now), "--image", "busybox",
                              "-n", unwrap_or(namespace, "default"), "--restart=Never",
                              "--rm", "-it", "--", "/bin/sh">>, "inherit", st)>>
         /\ exit_code' = Some(ExitOf(st = "success"))
    /\ pc' = "done"
    /\ UNCHANGED <<command, pod_pattern, namespace, verbose, cluster, now,
                   resolved, listed, rows, shell_i>>

----------------------------------------------------------------------------
(* Inputs *)

Unresolved == Err("")

NormalStatuses == Some(<<[restartCount |-> Some(0)]>>)
NormalTimestamp == Some(Timestamp(199000, 0))

\* the records a resolver command may be answered with: the fields find_pod reads
\* vary, the others are those of a healthy pod
ResolvePods ==
    {Pod(n, ns, Some("Running"), NormalStatuses, NormalTimestamp) :
        n \in {None} \cup {Some(x) : x \in PodNames},
        ns \in {None} \cup {Some(x) : x \in Namespaces}}

Init ==
    /\ command \in Commands
    /\ pod_pattern \in (IF command \in ResolverCommands THEN Patterns ELSE {""})
    /\ namespace \in Scopes
    /\ verbose \in (IF command = "List" THEN BOOLEAN ELSE {FALSE})
    /\ cluster \in (IF command \in ResolverCommands \cup {"List"}
                    THEN Answers(ResolvePods, MaxPods) ELSE {CannotRun})
    /\ now = Clock
    /\ pc = "main"
    /\ calls = <<>>
    /\ resolved = Unresolved
    /\ listed = <<>>
    /\ rows = <<>>
    /\ shell_i = 0
    /\ exit_code = None

Next ==
    \/ list_pods
    \/ find_pod
    \/ show_logs
    \/ exec_pod
    \/ describe_pod
    \/ show_top
    \/ port_forward
    \/ shell_pod
    \/ shell_pod_last
    \/ debug_pod
    \/ restart_pod
    \/ show_events

Spec == Init /\ [][Next]_vars

----------------------------------------------------------------------------
(* `kdbg list` alone, answered with records whose status and age fields vary *)

\* elapsed seconds between creationTimestamp and the clock: each bucket of
\* calculate_age, both sides of each bucket limit, and a timestamp in the future
DiffSamples == {-10, 0, 1, 59, 60, 61, 3599, 3600, 3601, 86399, 86400, 86401, 172800}

ListTimestamps ==
    {None, Some(Garbage)}
      \cup {Some(Timestamp(Clock - d, 0)) : d \in DiffSamples}
      \cup {Some(Timestamp(Clock - 60 + 3600, 3600))}

ListStatuses ==
    {None, Some(<<>>), Some(<<[restartCount |-> None]>>),
     Some(<<[restartCount |-> Some(3)]>>)}

ListPhases == {None, Some("Running"), Some("Pending"), Some("Failed"),
               Some("Succeeded"), Some("Terminating")}

\* one field varies at a time around a healthy pod
ListPods ==
    {Pod(Some("web-1"), Some("prod"), Some("Running"), NormalStatuses, ts) :
        ts \in ListTimestamps}
      \cup {Pod(Some("web-1"), Some("prod"), Some("Running"), cs, NormalTimestamp) :
              cs \in ListStatuses}
      \cup {Pod(Some("web-1"), Some("prod"), ph, NormalStatuses, NormalTimestamp) :
              ph \in ListPhases}
      \cup {Pod(None, None, Some("Running"), NormalStatuses, None)}

InitList ==
    /\ command = "List"
    /\ pod_pattern = ""
    /\ namespace \in Scopes
    /\ verbose \in BOOLEAN
    /\ cluster \in Answers(ListPods, MaxListPods)
    /\ now = Clock
    /\ pc = "main"
    /\ calls = <<>>
    /\ resolved = Unresolved
    /\ listed = <<>>
    /\ rows = <<>>
    /\ shell_i = 0
    /\ exit_code = None

NextList == list_pods

SpecList == InitList /\ [][NextList]_vars

----------------------------------------------------------------------------
(* Vocabulary of the properties *)

\* pat occurs in text as a substring, letter case included
HasSubstring(text, pat) ==
    \E i \in 1..(Len(text) + 1) : \E j \in (i - 1)..Len(text) : SubSeq(text, i, j) = pat

\* find_pod has returned in this invocation
FindPodReturned == command \in ResolverCommands /\ pc # "main"

\* the listing call produced a response that decodes
Decoded == cluster.spawned /\ cluster.json

\* the records of the decoded response, in the order kubectl gave them
Items == unwrap_or(cluster.items, <<>>)

\* the name of a record as text; a record without a name has the empty name
NameText(pod) == IF pod.name = None THEN "" ELSE pod.name[1]

\* positions of the records whose name contains the pattern
MatchIdx == {i \in 1..Len(Items) : HasSubstring(NameText(Items[i]), pod_pattern)}

\* the k-th smallest element of a finite set of numbers
RECURSIVE Nth(_, _)
Nth(S, k) ==
    LET m == CHOOSE x \in S : \A y \in S : x <= y
    IN  IF k = 1 THEN m ELSE Nth(S \ {m}, k - 1)

QueryIdx == {k \in 1..Len(calls) : IsQuery(calls[k])}
ActionIdx == {k \in 1..Len(calls) : ~IsQuery(calls[k])}

----------------------------------------------------------------------------
(* C1 *)

----------------------------------------------------------------------------
(* C2 *)

\* C2: when two or more records have a name containing the pattern, find_pod
\* fails with "Please be more specific", returns no target, and the lines it
\* printed are the matching records, one line each, in the order of the
\* response; this includes a pattern equal to one candidate's whole name.
C2_AmbiguousListsAllMatches ==
    (FindPodReturned /\ Decoded /\ Cardinality(MatchIdx) >= 2) =>
        /\ resolved = Err(BeMoreSpecific)
        /\ Len(listed) = Cardinality(MatchIdx)
        /\ \A k \in 1..Len(listed) : listed[k] = candidate_line(Items[Nth(MatchIdx, k)])
        /\ ActionIdx = {}
        /\ pc = "done"

\* reached: "web-1" against web-10 and web-1, both listed in response order
C2_Witness ==
    /\ pc = "done"
    /\ pod_pattern = "web-1"
    /\ Len(Items) = 2
    /\ Items[1].name = Some("web-10")
    /\ Items[2].name = Some("web-1")
    /\ Items[1].namespace = Some("prod")
    /\ Items[2].namespace = Some("dev")
    /\ resolved = Err(BeMoreSpecific)
    /\ listed = <<<<"web-10", "prod">>, <<"web-1", "dev">>>>

----------------------------------------------------------------------------
(* C3 *)

\* C3: in a resolver command every action call comes after the listing query
\* and after find_pod returned Ok; once find_pod has failed no action call is
\* in the record of the invocation, and restart has run no delete.
C3_ActionOnlyAfterResolution ==
    command \in ResolverCommands =>
        /\ \A k \in ActionIdx : resolved.ok /\ k > 1 /\ IsQuery(calls[1])
        /\ (FindPodReturned /\ ~resolved.ok) =>
              /\ ActionIdx = {}
              /\ pc = "done"
              /\ \A k \in 1..Len(calls) : calls[k].argv[1] # "delete"

\* reached: a restart whose pattern is ambiguous ends with the query alone
C3_Witness ==
    /\ command = "Restart"
    /\ pc = "done"
    /\ resolved = Err(BeMoreSpecific)
    /\ Len(calls) = 1
    /\ IsQuery(calls[1])

----------------------------------------------------------------------------
(* C4 *)

\* C4: whenever find_pod succeeds, exactly one record of the decoded response
\* has the returned name as its name field and the returned namespace as its
\* namespace field.
C4_ResolvedIsARecord ==
    (FindPodReturned /\ resolved.ok) =>
        Cardinality({i \in 1..Len(Items) :
                        /\ Items[i].name = Some(resolved.name)
                        /\ Items[i].namespace = Some(resolved.ns)}) = 1

----------------------------------------------------------------------------
(* C5 *)

\* C5 as stated: an invocation runs at most two external calls, at most one
\* listing query followed by at most one action call.
C5_AtMostTwoCalls ==
    /\ Len(calls) <= 2
    /\ Cardinality(QueryIdx) <= 1
    /\ Cardinality(ActionIdx) <= 1
    /\ \A k \in QueryIdx : k = 1

\* C5 amended: every command other than shell runs at most two external calls,
\* at most one listing query followed by at most one action call; shell runs
\* its one listing query followed by at most three exec attempts, four calls at
\* most.  The query, when there is one, is the first call.
C5_AtMostTwoCallsButShell ==
    /\ Cardinality(QueryIdx) <= 1
    /\ \A k \in QueryIdx : k = 1
    /\ command # "Shell" => Len(calls) <= 2 /\ Cardinality(ActionIdx) <= 1
    /\ command = "Shell" => Len(calls) <= 4 /\ Cardinality(ActionIdx) <= 3
    /\ command \in {"List", "Top", "Debug"} => Len(calls) <= 1

\* reached: a shell invocation that has run its query and three exec attempts
C5_Witness ==
    /\ command = "Shell"
    /\ pc = "done"
    /\ Len(calls) = 4
    /\ IsQuery(calls[1])
    /\ \A k \in 2..4 : calls[k].argv[1] = "exec" /\ calls[k].status = "failure"

----------------------------------------------------------------------------
(* C6 *)

\* a call whose failure the invocation has not already answered with another
\* attempt: any failed call of a command other than shell, and for shell the
\* failed query or the failed last attempt
UnansweredFailure ==
    \E k \in 1..Len(calls) :
        /\ calls[k].status # "success"
        /\ command = "Shell" => (k = 1 \/ k = Len(calls))

\* C6: an invocation that ends after an external call could not run or exited
\* non-zero, after an undecodable response, or after find_pod found no pod or
\* several, ends with a non-zero exit status.
C6_FailureEndsNonZero ==
    (/\ pc = "done"
     /\ \/ UnansweredFailure
        \/ (calls # <<>> /\ IsQuery(calls[1]) /\ cluster.spawned /\ ~cluster.json)
        \/ (FindPodReturned /\ ~resolved.ok))
        => exit_code = Some(1)

----------------------------------------------------------------------------
(* C7 *)

\* C7: when the listing call of find_pod exits non-zero, find_pod fails, and
\* not with a verdict drawn from what the failed call wrote: it returns no
\* target and reports neither "No pods found" nor "Please be more specific";
\* when the call succeeded and its output is not JSON, find_pod fails with the
\* decode error.
C7_FailedQueryIsTransportFailure ==
    FindPodReturned =>
        /\ (cluster.spawned /\ ~cluster.success) =>
              /\ ~resolved.ok
              /\ resolved.err \in {IoError, JsonError}
        /\ (cluster.spawned /\ cluster.success /\ ~cluster.json) => resolved = Err(JsonError)

----------------------------------------------------------------------------
(* C10 *)

\* the exec attempts of a shell invocation on one alternative
AttemptsOn(shell) ==
    {k \in ActionIdx : calls[k].argv[Len(calls[k].argv)] = shell}

\* C10: shell attempts /bin/bash then /bin/sh, one exec attempt per
\* alternative, with stderr suppressed on every alternative but the last and
\* inherited on the last, and stops at the first attempt that succeeds.
C10_OneAttemptPerShell ==
    command = "Shell" =>
        /\ \A n \in 1..Len(shells) :
              /\ Cardinality(AttemptsOn(shells[n])) <= 1
              /\ \A k \in AttemptsOn(shells[n]) :
                    /\ calls[k].stderr = (IF n = Len(shells) THEN "inherit" ELSE "null")
                    /\ k = n + 1
        /\ \A k \in ActionIdx : calls[k].status = "success" => k = Len(calls)

----------------------------------------------------------------------------
(* C8 *)

\* list has printed the table of a decoded response
Listed ==
    /\ command = "List"
    /\ pc = "done"
    /\ cluster.spawned /\ cluster.success /\ cluster.json

\* the records whose creationTimestamp is an RFC 3339 text
Dated == {i \in 1..Len(Items) :
            /\ Items[i].creationTimestamp # None
            /\ Items[i].creationTimestamp[1].rfc3339}

\* whole seconds from the instant a record's timestamp names to the clock
Elapsed(i) ==
    LET ts == Items[i].creationTimestamp[1]
    IN  now - (ts.local - ts.offset)

\* the value of a decimal numeral
RECURSIVE Numeral(_)
Numeral(text) ==
    IF text = "" THEN 0
    ELSE LET last == SubSeq(text, Len(text), Len(text))
             digit == CHOOSE v \in 0..9 : ToString(v) = last
         IN  10 * Numeral(SubSeq(text, 1, Len(text) - 1)) + digit

\* an age text as (position of its unit in s < m < h < d, its number)
UnitRank(age) ==
    LET u == SubSeq(age, Len(age), Len(age))
    IN  CASE u = "s" -> 1 [] u = "m" -> 2 [] u = "h" -> 3 [] u = "d" -> 4
AgeNumber(age) == Numeral(SubSeq(age, 1, Len(age) - 1))

AgeLeq(a, b) ==
    \/ UnitRank(a) < UnitRank(b)
    \/ UnitRank(a) = UnitRank(b) /\ AgeNumber(a) <= AgeNumber(b)

\* the unit an elapsed time is reported in: its letter and its length in seconds
UnitLetter(d) ==
    IF d < 60 THEN "s" ELSE IF d < 3600 THEN "m" ELSE IF d < 86400 THEN "h" ELSE "d"
UnitSeconds(d) ==
    IF d < 60 THEN 1 ELSE IF d < 3600 THEN 60 ELSE IF d < 86400 THEN 3600 ELSE 86400

\* C8: every age list prints for a record created d >= 0 seconds ago is
\* "<d>s" below 60, "<d div 60>m" below 3600, "<d div 3600>h" below 86400 and
\* "<d div 86400>d" from there on; of two records the older never shows the
\* smaller age in the order s < m < h < d; and 59, 60, 3599, 3600, 86399,
\* 86400 seconds read "59s", "1m", "59m", "1h", "23h", "1d".
C8_AgeBuckets ==
    (Listed /\ verbose) =>
        /\ \A i \in Dated : Elapsed(i) >= 0 =>
              LET d == Elapsed(i)
                  age == rows[i].age[1]
              IN  /\ age = ToString(d \div UnitSeconds(d)) \o UnitLetter(d)
                  /\ d = 59 => age = "59s"
                  /\ d = 60 => age = "1m"
                  /\ d = 3599 => age = "59m"
                  /\ d = 3600 => age = "1h"
                  /\ d = 86399 => age = "23h"
                  /\ d = 86400 => age = "1d"
        /\ \A i, j \in Dated :
              (0 <= Elapsed(i) /\ Elapsed(i) <= Elapsed(j)) =>
                  AgeLeq(rows[i].age[1], rows[j].age[1])

\* reached: one listing with a record 3599 seconds old and one 3600 seconds old
C8_Witness ==
    /\ Listed /\ verbose
    /\ Len(rows) = 2
    /\ Dated = {1, 2}
    /\ Elapsed(1) = 3599 /\ rows[1].age = Some("59m")
    /\ Elapsed(2) = 3600 /\ rows[2].age = Some("1h")

----------------------------------------------------------------------------
(* C9 *)

\* C9: in a verbose listing a record whose creationTimestamp is missing or is
\* not a timestamp shows the age "unknown", every record of the response has
\* its row, and the listing succeeds.
C9_UndatedIsUnknown ==
    (Listed /\ verbose) =>
        /\ exit_code = Some(0)
        /\ Len(rows) = Len(Items)
        /\ \A i \in (1..Len(Items)) \ Dated : rows[i].age = Some("unknown")

====
